---- MODULE Spec2Model ----
(***************************************************************************)
(* Category taxonomy of djangocms_taxonomy/models.py: the Category table   *)
(* (a parent-pointer forest with slug, name and priority columns), the     *)
(* save/delete operations on it and the traversal queries of               *)
(* CategoryQuerySet.                                                       *)
(*                                                                         *)
(* Text values (name, slug) are sequences of ASCII codes, so that          *)
(* lower-casing, slug derivation and ORDER BY name are computed.           *)
(* A nullable integer column is <<>> (NULL) or <<v>>.                      *)
(***************************************************************************)
EXTENDS Integers, Sequences, FiniteSets

VARIABLES
    store,      \* the Category table: id -> row, for the rows that exist
    nextId,     \* the next AutoField primary key
    last,       \* the last create/update/delete call: arguments and outcome
    trav,       \* the get_ancestors / get_descendants / roots / leaves call in progress or returned
    listing,    \* the rows of the last full listing (Category.objects.all()), in order
    cascaded    \* history: ids removed by a cascade (not as the target of a delete)

vars == <<store, nextId, last, trav, listing, cascaded>>

----------------------------------------------------------------------------
(* Bounds *)

MaxIds == 3          \* primary keys handed out: 1..MaxIds
MaxWalk == 5         \* cap on the length of the list a traversal loop builds

Ids == 1..MaxIds

(* parent IS NULL; primary keys start at 1 *)
NULL == 0

None == <<>>
Some(v) == <<v>>

----------------------------------------------------------------------------
(* Text *)

Range(s) == {s[i] : i \in 1..Len(s)}

RECURSIVE SeqLess(_, _)
(* a < b for text, code point by code point (ORDER BY name, binary collation) *)
SeqLess(a, b) ==
    IF b = <<>> THEN FALSE
    ELSE IF a = <<>> THEN TRUE
    ELSE IF Head(a) # Head(b) THEN Head(a) < Head(b)
    ELSE SeqLess(Tail(a), Tail(b))

IsUpper(c) == c \in 65..90
IsLower(c) == c \in 97..122
IsDigit(c) == c \in 48..57
IsWord(c) == IsUpper(c) \/ IsLower(c) \/ IsDigit(c) \/ c = 95      \* \w
IsSpace(c) == c \in {9, 10, 11, 12, 13, 32}                       \* \s
Hyphen == 45
Underscore == 95

LowerChar(c) == IF IsUpper(c) THEN c + 32 ELSE c

(* value.lower() *)
Lower(s) == [i \in 1..Len(s) |-> LowerChar(s[i])]

RECURSIVE DropOther(_)
(* re.sub(r"[^\w\s-]", "", value) *)
DropOther(s) ==
    IF s = <<>> THEN <<>>
    ELSE IF IsWord(Head(s)) \/ IsSpace(Head(s)) \/ Head(s) = Hyphen
         THEN <<Head(s)>> \o DropOther(Tail(s))
         ELSE DropOther(Tail(s))

IsSep(c) == c = Hyphen \/ IsSpace(c)

RECURSIVE Collapse(_)
(* re.sub(r"[-\s]+", "-", value) *)
Collapse(s) ==
    IF s = <<>> THEN <<>>
    ELSE IF IsSep(Head(s))
         THEN IF Tail(s) # <<>> /\ IsSep(Head(Tail(s)))
              THEN Collapse(Tail(s))
              ELSE <<Hyphen>> \o Collapse(Tail(s))
         ELSE <<Head(s)>> \o Collapse(Tail(s))

RECURSIVE StripLeft(_)
StripLeft(s) ==
    IF s # <<>> /\ Head(s) \in {Hyphen, Underscore} THEN StripLeft(Tail(s)) ELSE s

RECURSIVE StripRight(_)
StripRight(s) ==
    IF s # <<>> /\ s[Len(s)] \in {Hyphen, Underscore}
    THEN StripRight(SubSeq(s, 1, Len(s) - 1)) ELSE s

(* value.strip("-_") *)
Strip(s) == StripRight(StripLeft(s))

(* django.utils.text.slugify on ASCII text *)
slugify(value) == Strip(Collapse(DropOther(Lower(value))))

----------------------------------------------------------------------------
(* Rows *)

Row(parent, name, slug, priority) ==
    [parent |-> parent, name |-> name, slug |-> slug, priority |-> priority]

Exists(id) == id \in DOMAIN store

(* category.children.all(), as a set of ids: related_name="children" *)
Children(id) == {m \in DOMAIN store : store[m].parent = id}

----------------------------------------------------------------------------
(* Meta.ordering = (F("priority").asc(nulls_last=True), "name") *)

(* a plain ascending sort, which puts NULL first *)
OrderKeyNullsFirst(r) ==
    <<0, IF r.priority = None THEN 0 ELSE r.priority[1], r.name>>

(* the sort key of a row: priority IS NULL, priority, name *)
OrderKey(r) ==
    <<IF r.priority = None THEN 1 ELSE 0,
      IF r.priority = None THEN 0 ELSE r.priority[1],
      r.name>>

(* key a sorts no later than key b *)
KeyLeq(a, b) ==
    IF a[1] # b[1] THEN a[1] < b[1]
    ELSE IF a[2] # b[2] THEN a[2] < b[2]
    ELSE ~SeqLess(b[3], a[3])

Perms(S) ==
    {p \in [1..Cardinality(S) -> S] : \A i, j \in 1..Cardinality(S) : i # j => p[i] # p[j]}

(* the orders in which ORDER BY may return the rows S; rows with equal keys
   come in an order the database chooses *)
Ordered(S) ==
    {p \in Perms(S) :
        \A i, j \in 1..Len(p) :
            i < j => KeyLeq(OrderKey(store[p[i]]), OrderKey(store[p[j]]))}

----------------------------------------------------------------------------
(* Category.save and the constraints of the table *)

(* a save that derives the slug from the name whatever the slug is *)
SaveSlugAlways(name, slug) ==
    IF name # <<>> THEN slugify(name) ELSE slug

(* save(): if not self.slug and self.name: self.slug = slugify(self.name) *)
SaveSlug(name, slug) ==
    IF slug = <<>> /\ name # <<>> THEN slugify(name) ELSE slug

(* a slug column without unique=True *)
UniqueSlugOff(id, slug) == TRUE

(* slug = SlugField(unique=True): no other row has this slug *)
UniqueSlugOk(id, slug) ==
    \A m \in DOMAIN store \ {id} : store[m].slug # slug

(* UniqueConstraint(fields=["slug", "parent"]): no other row has this pair;
   rows whose parent is NULL never collide under a SQL unique constraint *)
UniquePairOk(id, slug, parent) ==
    \A m \in DOMAIN store \ {id} :
        ~(parent # NULL /\ store[m].slug = slug /\ store[m].parent = parent)

(* a parent column that is not checked against the table *)
ForeignKeyOff(parent) == TRUE

(* parent = ForeignKey("self", null=True): the referenced row exists; a row
   being updated may reference itself *)
ForeignKeyOk(parent) == parent = NULL \/ parent \in DOMAIN store

SaveResult(id, slug, parent) ==
    IF ~ForeignKeyOk(parent) THEN "ForeignKeyViolation"
    ELSE IF ~(UniqueSlugOk(id, slug) /\ UniquePairOk(id, slug, parent))
         THEN "ConstraintViolation"
    ELSE "ok"

Idle == [kind |-> "none", pc |-> "idle", start |-> NULL, current |-> NULL,
         queue |-> <<>>, acc |-> <<>>, result |-> <<>>]

NoRow == Row(NULL, <<>>, <<>>, None)

Call(op, id, row, result, oldSlug) ==
    [op |-> op, id |-> id, name |-> row.name, slug |-> row.slug,
     parent |-> row.parent, result |-> result, oldSlug |-> oldSlug]

NoCall == Call("none", NULL, NoRow, "ok", <<>>)

(* a save the table refused: the exception is what the caller sees *)
Refused(op, result) == Call(op, NULL, NoRow, result, <<>>)

(* every handler runs to its end before the next begins *)
Quiet == trav.pc # "loop"

(* Category.objects.create(name=, slug=, parent=, priority=) *)
Create(name, slug, parent, priority) ==
    LET id == nextId
        s == SaveSlug(name, slug)
        res == SaveResult(id, s, parent)
    IN  /\ Quiet
        /\ nextId <= MaxIds
        /\ last' = IF res = "ok"
                   THEN Call("create", id, Row(parent, name, slug, priority), res, <<>>)
                   ELSE Refused("create", res)
        /\ IF res = "ok"
           THEN /\ store' = [m \in DOMAIN store \cup {id} |->
                               IF m = id THEN Row(parent, name, s, priority) ELSE store[m]]
                /\ nextId' = nextId + 1
           ELSE UNCHANGED <<store, nextId>>
        /\ trav' = Idle
        /\ listing' = <<>>
        /\ UNCHANGED cascaded

(* a loaded row with its fields set by the caller, then save() *)
Update(id, name, slug, parent, priority) ==
    LET s == SaveSlug(name, slug)
        res == SaveResult(id, s, parent)
    IN  /\ Quiet
        /\ Exists(id)
        /\ last' = IF res = "ok"
                   THEN Call("update", id, Row(parent, name, slug, priority), res,
                             store[id].slug)
                   ELSE Refused("update", res)
        /\ IF res = "ok"
           THEN store' = [store EXCEPT ![id] = Row(parent, name, s, priority)]
           ELSE UNCHANGED store
        /\ trav' = Idle
        /\ listing' = <<>>
        /\ UNCHANGED <<nextId, cascaded>>

(* a delete that removes the direct children only *)
CollectChildren(S) == S \cup {m \in DOMAIN store : store[m].parent \in S}

RECURSIVE Collect(_)
(* on_delete=models.CASCADE: the rows that reference a collected row are
   collected too, until no new row is found *)
Collect(S) ==
    LET new == {m \in DOMAIN store : store[m].parent \in S} \ S
    IN  IF new = {} THEN S ELSE Collect(S \cup new)

(* category.delete() *)
Delete(id) ==
    LET gone == Collect({id})
    IN  /\ Quiet
        /\ Exists(id)
        /\ store' = [m \in DOMAIN store \ gone |-> store[m]]
        /\ last' = Call("delete", id, store[id], "ok", store[id].slug)
        /\ cascaded' = cascaded \cup (gone \ {id})
        /\ trav' = Idle
        /\ listing' = <<>>
        /\ UNCHANGED nextId

(* list(Category.objects.all()) *)
ListAll ==
    /\ Quiet
    /\ \E p \in Ordered(DOMAIN store) : listing' = p
    /\ trav' = Idle
    /\ last' = NoCall
    /\ UNCHANGED <<store, nextId, cascaded>>

----------------------------------------------------------------------------
(* CategoryQuerySet: a query result is the rows it returns, id -> number of
   times the row is returned *)

Rows(count) == [n \in {m \in DOMAIN count : count[m] > 0} |-> count[n]]

(* self.filter(id__in=ids); self.none() when ids is empty *)
FilterIdIn(ids) == Rows([n \in DOMAIN store |-> IF n \in Range(ids) THEN 1 ELSE 0])

(* self.filter(parent__isnull=True) *)
root_categories == Rows([n \in DOMAIN store |-> IF store[n].parent = NULL THEN 1 ELSE 0])

(* the LEFT OUTER JOIN of a row with its children: one joined row per child,
   or one with a NULL child *)
JoinChildren(n) == IF Children(n) = {} THEN {NULL} ELSE Children(n)

(* the join filtered on children__isnull=False *)
leaf_categories_not_null ==
    Rows([n \in DOMAIN store |-> Cardinality({c \in JoinChildren(n) : c # NULL})])

(* self.filter(children__isnull=True) *)
leaf_categories ==
    Rows([n \in DOMAIN store |-> Cardinality({c \in JoinChildren(n) : c = NULL})])

(* the guard for a missing node is absent *)
NotFoundNever(category_id) == FALSE

(* category = self.filter(id=category_id).first(); if not category *)
NotFound(category_id) == ~Exists(category_id)

Returned(kind, id, acc, result) ==
    [kind |-> kind, pc |-> "done", start |-> id, current |-> NULL,
     queue |-> <<>>, acc |-> acc, result |-> result]

(* reading an attribute of None *)
Raised(kind, id) ==
    [kind |-> kind, pc |-> "error", start |-> id, current |-> NULL,
     queue |-> <<>>, acc |-> <<>>, result |-> <<>>]

Reads == /\ last' = NoCall
         /\ listing' = <<>>
         /\ UNCHANGED <<store, nextId, cascaded>>

(* the walk begins at the node itself instead of its parent *)
FirstAncestorSelf(category_id) == category_id

(* current = category.parent *)
FirstAncestor(category_id) == store[category_id].parent

(* a walk that stops at a node it has already recorded *)
WalkContinuesUnvisited(current, acc) == current # NULL /\ current \notin Range(acc)

(* while current is not None *)
WalkContinues(current, acc) == current # NULL

(* get_ancestors(category_id), up to the loop *)
GetAncestorsCall(category_id) ==
    /\ Quiet
    /\ trav' = IF NotFound(category_id)
               THEN Returned("ancestors", category_id, <<>>, <<>>)
               ELSE IF ~Exists(category_id)
               THEN Raised("ancestors", category_id)
               ELSE [kind |-> "ancestors", pc |-> "loop", start |-> category_id,
                     current |-> FirstAncestor(category_id),
                     queue |-> <<>>, acc |-> <<>>, result |-> <<>>]
    /\ Reads

(* one turn of the loop: ancestors.append(current); current = current.parent *)
GetAncestorsStep ==
    /\ trav.kind = "ancestors" /\ trav.pc = "loop"
    /\ WalkContinues(trav.current, trav.acc)
    /\ Len(trav.acc) < MaxWalk
    /\ trav' = [trav EXCEPT !.acc = Append(@, trav.current),
                            !.current = store[trav.current].parent]
    /\ Reads

(* the loop ends: return self.filter(id__in=ids), or self.none() *)
GetAncestorsReturn ==
    /\ trav.kind = "ancestors" /\ trav.pc = "loop"
    /\ ~WalkContinues(trav.current, trav.acc)
    /\ trav' = Returned("ancestors", trav.start, trav.acc, FilterIdIn(trav.acc))
    /\ Reads

(* queue = list(category.children.all()) *)
Seed(category_id) == Ordered(Children(category_id))

(* the children of a dequeued node are not enqueued *)
ExtendNothing(queue, current) == {queue}

(* queue.extend(current.children.all()) *)
Extend(queue, current) == {queue \o q : q \in Ordered(Children(current))}

(* get_descendants(category_id), up to the loop *)
GetDescendantsCall(category_id) ==
    /\ Quiet
    /\ \/ /\ NotFound(category_id)
          /\ trav' = Returned("descendants", category_id, <<>>, <<>>)
       \/ /\ ~NotFound(category_id)
          /\ ~Exists(category_id)
          /\ trav' = Raised("descendants", category_id)
       \/ /\ ~NotFound(category_id)
          /\ Exists(category_id)
          /\ \E q \in Seed(category_id) :
                trav' = [kind |-> "descendants", pc |-> "loop", start |-> category_id,
                         current |-> NULL, queue |-> q, acc |-> <<>>, result |-> <<>>]
    /\ Reads

(* one turn of the loop: current = queue.pop(0); descendants.append(current);
   queue.extend(current.children.all()) *)
GetDescendantsStep ==
    /\ trav.kind = "descendants" /\ trav.pc = "loop"
    /\ trav.queue # <<>>
    /\ Len(trav.acc) < MaxWalk
    /\ \E q \in Extend(Tail(trav.queue), Head(trav.queue)) :
          trav' = [trav EXCEPT !.acc = Append(@, Head(trav.queue)),
                               !.current = Head(trav.queue),
                               !.queue = q]
    /\ Reads

(* the queue is empty: return self.filter(id__in=ids), or self.none() *)
GetDescendantsReturn ==
    /\ trav.kind = "descendants" /\ trav.pc = "loop"
    /\ trav.queue = <<>>
    /\ trav' = Returned("descendants", trav.start, trav.acc, FilterIdIn(trav.acc))
    /\ Reads

(* Category.objects.root_categories() *)
RootCategories ==
    /\ Quiet
    /\ trav' = Returned("roots", NULL, <<>>, root_categories)
    /\ Reads

(* Category.objects.leaf_categories() *)
LeafCategories ==
    /\ Quiet
    /\ trav' = Returned("leaves", NULL, <<>>, leaf_categories)
    /\ Reads

----------------------------------------------------------------------------
(* Inputs *)

NameAB == <<Underscore, 65, 33, 32, Hyphen, 98, Hyphen>>    \* "_A! -b-"
NameBang == <<33>>                  \* "!"
NameA == <<65>>                     \* "A"
NameB == <<66>>                     \* "B"
SlugAB == <<97, Hyphen, 98>>        \* "a-b"

(* "x", "y", "z", ...: one slug per primary key *)
LetterSlug(id) == <<119 + id>>

SlugNames == {<<>>, NameBang, NameAB}
SlugSlugs == {<<>>, LetterSlug(1), SlugAB}
OrderNames == {NameA, NameB}
Priorities == {None, Some(1), Some(2)}
SlugParents == {NULL, 1}

Parents == {NULL} \cup Ids

Init ==
    /\ store = <<>>
    /\ nextId = 1
    /\ last = NoCall
    /\ trav = Idle
    /\ listing = <<>>
    /\ cascaded = {}

(* The forest: rows differ in slug and parent only *)
Next ==
    \/ \E parent \in Parents : Create(NameAB, LetterSlug(nextId), parent, None)
    \/ \E id \in Ids, parent \in Parents :
          Update(id, NameAB, LetterSlug(id), parent, None)
    \/ \E id \in Ids : Delete(id)
    \/ \E id \in Ids : GetAncestorsCall(id)
    \/ GetAncestorsStep
    \/ GetAncestorsReturn
    \/ \E id \in Ids : GetDescendantsCall(id)
    \/ GetDescendantsStep
    \/ GetDescendantsReturn
    \/ RootCategories
    \/ LeafCategories

Spec == Init /\ [][Next]_vars

(* Slugs and names: rows differ in name, slug and parent *)
NextSlug ==
    \/ \E name \in SlugNames, slug \in SlugSlugs, parent \in SlugParents :
          Create(name, slug, parent, None)
    \/ \E id \in Ids, name \in SlugNames, slug \in SlugSlugs, parent \in SlugParents :
          Update(id, name, slug, parent, None)
    \/ \E id \in Ids : Delete(id)

SpecSlug == Init /\ [][NextSlug]_vars

(* Listings: root rows that differ in name, slug and priority *)
NextOrder ==
    \/ \E name \in OrderNames, priority \in Priorities :
          Create(name, LetterSlug(nextId), NULL, priority)
    \/ \E id \in Ids, name \in OrderNames, priority \in Priorities :
          Update(id, name, LetterSlug(id), NULL, priority)
    \/ \E id \in Ids : Delete(id)
    \/ ListAll

SpecOrder == Init /\ [][NextOrder]_vars

(* a loop that is running takes its next turn *)
SpecLive == Spec /\ WF_vars(GetAncestorsStep) /\ WF_vars(GetAncestorsReturn)

----------------------------------------------------------------------------
(* The forest, as the properties speak of it *)

RECURSIVE Up(_)
(* S and every node a parent pointer leads to from S *)
Up(S) ==
    LET nxt == {store[x].parent : x \in S \cap DOMAIN store} \ {NULL}
    IN  IF nxt \subseteq S THEN S ELSE Up(S \cup nxt)

(* the nodes reached from n by following the parent pointer once or more *)
AncestorSet(n) == Up({store[n].parent} \ {NULL})

(* the other nodes whose parent chain passes through n *)
DescendantSet(n) == {m \in DOMAIN store : m # n /\ n \in AncestorSet(m)}

IsForest ==
    \A n \in DOMAIN store :
        /\ store[n].parent \in {NULL} \cup DOMAIN store
        /\ n \notin AncestorSet(n)

(* the parent chain from n ends at a root *)
ReachesRoot(n) == \A m \in {n} \cup AncestorSet(n) : m \notin AncestorSet(m)

IsRoot(n) == store[n].parent = NULL
IsLeaf(n) == \A m \in DOMAIN store : store[m].parent # n

(* g is the grandchild of a chain root -> child -> grandchild *)
ChainEnd(g) ==
    /\ g \in DOMAIN store /\ ~IsRoot(g)
    /\ ~IsRoot(store[g].parent)
    /\ IsRoot(store[store[g].parent].parent)

Once(S) == [n \in S |-> 1]

AncestorsDone == trav.kind = "ancestors" /\ trav.pc = "done"
DescendantsDone == trav.kind = "descendants" /\ trav.pc = "done"

----------------------------------------------------------------------------
(* C1: in an acyclic forest, get_ancestors(N) of an existing node N returns
   exactly the nodes reached from N by following the parent pointer once or
   more: never N, nothing for a root, and {root, child} for the grandchild of
   a chain root -> child -> grandchild. *)
AncestorsExact ==
    (AncestorsDone /\ Exists(trav.start) /\ IsForest) =>
        LET n == trav.start
            r == DOMAIN trav.result
        IN  /\ trav.result = Once(AncestorSet(n))
            /\ n \notin r
            /\ IsRoot(n) => r = {}
            /\ ChainEnd(n) => r = {store[n].parent, store[store[n].parent].parent}

AncestorsWitness ==
    /\ AncestorsDone /\ Exists(trav.start) /\ IsForest
    /\ ChainEnd(trav.start)
    /\ Cardinality(DOMAIN trav.result) = 2

(* C2: in an acyclic forest, get_descendants(N) of an existing node N returns
   exactly the other nodes whose parent chain passes through N, each once:
   never N, nothing for a leaf, and {child, grandchild} for the root of a
   chain root -> child -> grandchild. *)
DescendantsExact ==
    (DescendantsDone /\ Exists(trav.start) /\ IsForest) =>
        LET n == trav.start
            r == DOMAIN trav.result
        IN  /\ trav.result = Once(DescendantSet(n))
            /\ n \notin r
            /\ IsLeaf(n) => r = {}
            /\ \A g \in DOMAIN store :
                  (ChainEnd(g) /\ store[store[g].parent].parent = n
                      /\ Cardinality(DOMAIN store) = 3)
                  => r = {store[g].parent, g}

DescendantsWitness ==
    /\ DescendantsDone /\ Exists(trav.start) /\ IsForest
    /\ \E g \in DOMAIN store :
          ChainEnd(g) /\ store[store[g].parent].parent = trav.start
    /\ Cardinality(DOMAIN trav.result) = 2
    /\ Len(trav.acc) = 2

(* C3: delete(N) removes N and every transitive descendant of N and nothing
   else: no removed node can be looked up, every other node stays as it was,
   and no surviving node refers to a removed parent. *)
DeleteCascades ==
    [][(store' # store /\ last'.op = "delete") =>
          LET n == last'.id
              gone == {n} \cup DescendantSet(n)
          IN  /\ DOMAIN store' = DOMAIN store \ gone
              /\ \A m \in DOMAIN store' : store'[m] = store[m]
              /\ \A m \in DOMAIN store' :
                    store'[m].parent \in {NULL} \cup DOMAIN store']_vars

DeleteWitness ==
    /\ last.op = "delete" /\ ~Exists(last.id)
    /\ \E c \in cascaded : c > last.id
    /\ DOMAIN store # {}

(* C7: the roots query returns exactly the existing nodes whose parent is
   null and the leaves query exactly the existing nodes that no existing node
   names as parent, each once; in a chain root -> child -> grandchild the
   roots are {root} and the leaves {grandchild}. *)
RootsAndLeavesExact ==
    /\ (trav.kind = "roots" /\ trav.pc = "done") =>
          /\ trav.result = Once({n \in DOMAIN store : IsRoot(n)})
          /\ \A g \in DOMAIN store :
                (ChainEnd(g) /\ Cardinality(DOMAIN store) = 3)
                => DOMAIN trav.result = {store[store[g].parent].parent}
    /\ (trav.kind = "leaves" /\ trav.pc = "done") =>
          /\ trav.result = Once({n \in DOMAIN store : IsLeaf(n)})
          /\ \A g \in DOMAIN store :
                (ChainEnd(g) /\ Cardinality(DOMAIN store) = 3)
                => DOMAIN trav.result = {g}

RootsAndLeavesWitness ==
    /\ trav.kind = "leaves" /\ trav.pc = "done"
    /\ Cardinality(DOMAIN store) = 3
    /\ \E g \in DOMAIN store : ChainEnd(g) /\ DOMAIN trav.result = {g}
    /\ last.op = "none"

(* C9: get_ancestors and get_descendants of an identifier that belongs to no
   existing node (never created, or deleted, also by a cascade) return an
   empty result, raise no error and leave the store unchanged. *)
MissingNodeIsEmpty ==
    /\ []((trav.kind \in {"ancestors", "descendants"} /\ ~Exists(trav.start)) =>
             (trav.pc = "done" /\ DOMAIN trav.result = {}))
    /\ [][(trav' # trav /\ trav'.kind \in {"ancestors", "descendants"}) =>
             (store' = store /\ nextId' = nextId)]_vars

MissingNodeWitness ==
    /\ trav.kind = "descendants" /\ trav.pc = "done"
    /\ trav.start \in cascaded
    /\ DOMAIN store # {}

AncestorsWalking == trav.kind = "ancestors" /\ trav.pc = "loop"

(* C10: the upward walk of get_ancestors(N) ends, after at most depth(N)
   turns, whenever the parent chain from N reaches a root, and never ends
   when that chain enters a cycle. *)
WalkEndsIffRootReached ==
    /\ []((trav.kind = "ancestors" /\ trav.pc \in {"loop", "done"}
             /\ Exists(trav.start) /\ ReachesRoot(trav.start))
          => Len(trav.acc) <= Cardinality(AncestorSet(trav.start)))
    /\ ((AncestorsWalking /\ ReachesRoot(trav.start)) ~> AncestorsDone)
    /\ [][(AncestorsWalking /\ ~ReachesRoot(trav.start)) => AncestorsWalking']_vars

WalkInCycleWitness ==
    /\ AncestorsWalking
    /\ ~ReachesRoot(trav.start)
    /\ trav.start \notin AncestorSet(trav.start)
    /\ Len(trav.acc) > Cardinality(DOMAIN store)

----------------------------------------------------------------------------
(* Slugs *)

Saved == last.op \in {"create", "update"} /\ last.result = "ok"

(* saving node id with these fields gives it the (slug, parent) pair of
   another existing node *)
SamePair(id, name, slug, parent) ==
    \E m \in DOMAIN store \ {id} :
        /\ store[m].slug = (IF slug = <<>> /\ name # <<>> THEN slugify(name) ELSE slug)
        /\ store[m].parent = parent

(* C4: a create or update whose resulting (slug, parent) pair is that of
   another existing node fails with a ConstraintViolation and leaves the
   store unchanged, so no two nodes ever have the same pair, two roots with
   the same slug included. Step by step: a save that succeeds gave no such
   pair, a save refused with a ConstraintViolation changes no row, and a
   save refused for another reason was no save of such a pair. *)
SlugParentUnique ==
    /\ [](\A a, b \in DOMAIN store :
             a # b => <<store[a].slug, store[a].parent>> # <<store[b].slug, store[b].parent>>)
    /\ [][(last'.op \in {"create", "update"} /\ (last' # last \/ store' # store)) =>
             CASE last'.result = "ok" ->
                    ~SamePair(last'.id, last'.name, last'.slug, last'.parent)
               [] last'.result = "ConstraintViolation" ->
                    store' = store
               [] OTHER ->
                    \A name \in SlugNames, slug \in SlugSlugs, parent \in SlugParents :
                       /\ ~(SamePair(nextId, name, slug, parent)
                              /\ Create(name, slug, parent, None))
                       /\ \A id \in DOMAIN store :
                             ~(SamePair(id, name, slug, parent)
                                 /\ Update(id, name, slug, parent, None))]_vars

SlugParentWitness ==
    /\ last.op = "create" /\ last.result = "ConstraintViolation"
    /\ Cardinality(DOMAIN store) = 2
    /\ \A m \in DOMAIN store : store[m].parent = NULL

(* C5: every persisted node has a non-empty slug, whatever slug and name the
   caller supplied. *)
SlugNeverEmpty == \A n \in DOMAIN store : store[n].slug # <<>>

(* the letters and digits of a text, lower-cased, in order *)
Letters(s) == SelectSeq(Lower(s), LAMBDA c : IsLower(c) \/ IsDigit(c))

(* s is the lower-cased, hyphen-normalized form of name: the letters and
   digits of name in lower case, separated by single hyphens (or kept
   underscores), with none at either end *)
IsHyphenNormalized(s, name) ==
    /\ Letters(s) = Letters(name)
    /\ \A i \in 1..Len(s) : IsLower(s[i]) \/ IsDigit(s[i]) \/ s[i] \in {Hyphen, Underscore}
    /\ \A i \in 1..Len(s) - 1 : ~(s[i] = Hyphen /\ s[i + 1] = Hyphen)
    /\ s # <<>> => (s[1] \notin {Hyphen, Underscore} /\ s[Len(s)] \notin {Hyphen, Underscore})
    /\ \A i \in 2..Len(s) - 1 :
          s[i] = Hyphen =>
             \E j \in 2..Len(name) - 1 :
                /\ IsSep(name[j])
                /\ Letters(SubSeq(name, 1, j)) = Letters(SubSeq(s, 1, i))

(* C6: on every save, creation and update alike, an empty slug with a
   non-empty name is replaced by the lower-cased, hyphen-normalized form of
   the current name, and a non-empty slug is persisted as it is. *)
SlugDerivedOnSave ==
    Saved =>
        /\ (last.slug = <<>> /\ last.name # <<>>)
              => IsHyphenNormalized(store[last.id].slug, last.name)
        /\ last.slug # <<>> => store[last.id].slug = last.slug

SlugDerivedWitness ==
    /\ last.op = "update" /\ last.result = "ok"
    /\ last.slug = <<>> /\ last.name = NameAB
    /\ last.oldSlug = LetterSlug(1)
    /\ store[last.id].slug = SlugAB

----------------------------------------------------------------------------
(* Listings *)

(* row a may come before row b: by priority, a NULL priority after any
   other, and by name for equal priorities *)
Precedes(a, b) ==
    \/ a.priority # None /\ b.priority = None
    \/ a.priority # None /\ b.priority # None /\ a.priority[1] < b.priority[1]
    \/ a.priority = b.priority /\ ~SeqLess(b.name, a.name)

Listed == listing # <<>>

(* C8: a full listing is in priority order with NULL priorities last, rows
   of equal priority (two NULLs included) in name order; priorities
   {2, null, 1} list as 1, 2, null; any two rows are ordered. *)
ListingOrdered ==
    Listed =>
        /\ Len(listing) = Cardinality(DOMAIN store)
        /\ Range(listing) = DOMAIN store
        /\ \A i, j \in 1..Len(listing) :
              i < j => Precedes(store[listing[i]], store[listing[j]])
        /\ {store[n].priority : n \in DOMAIN store} = {Some(2), None, Some(1)}
              /\ Len(listing) = 3
              => [i \in 1..3 |-> store[listing[i]].priority] = <<Some(1), Some(2), None>>
        /\ \A a, b \in DOMAIN store :
              Precedes(store[a], store[b]) \/ Precedes(store[b], store[a])

ListingWitness ==
    /\ Len(listing) = 3
    /\ store[listing[1]].priority = Some(1)
    /\ store[listing[2]].priority = None
    /\ store[listing[3]].priority = None
    /\ store[listing[2]].name = NameA
    /\ store[listing[3]].name = NameB

----------------------------------------------------------------------------
(* Re-parenting *)

(* the step is a save that put a node under itself or under one of its own
   descendants *)
UnderOwnSubtree ==
    /\ last'.op = "update" /\ last'.result = "ok"
    /\ last'.parent \in {last'.id} \cup DescendantSet(last'.id)

(* C11: from the empty store, creates, deletes and re-parents that never put
   a node under itself or under one of its own descendants keep the parent
   pointers a forest (every parent exists, no node reaches itself); the store
   accepts a re-parent of a node under itself or its own descendant, so
   without that discipline a cyclic state is reached. *)
ForestUnderDiscipline ==
    /\ IsForest
    /\ [][(IsForest /\ ~UnderOwnSubtree) => IsForest']_vars
    /\ [][\A id \in DOMAIN store :
             \A parent \in {id} \cup DescendantSet(id) :
                Update(id, NameAB, LetterSlug(id), parent, None)
                => /\ last'.result = "ok"
                   /\ store'[id].parent = parent
                   /\ ~IsForest']_vars

CycleWitness ==
    /\ last.op = "update" /\ last.result = "ok"
    /\ last.parent \in DOMAIN store \ {last.id}
    /\ store[last.id].parent = last.parent
    /\ last.id \in AncestorSet(last.parent)
    /\ ~IsForest
    /\ Cardinality(DOMAIN store) = 2

====
